---- MODULE Spec2Model ----
(***************************************************************************)
(* Model of backend/file_indexing_server.py: the corpus indexer            *)
(* (build_inverted_index), the TF-IDF scorer and the query functions.      *)
(*                                                                         *)
(* A Python str is a sequence of one-character strings, so that lower(),   *)
(* strip(), split(), re.findall and re.split are computed character by     *)
(* character.  A Python float score is a fixed-point integer in thousandths*)
(* (see Log10Milli).  A dict is a function; where the code iterates over   *)
(* a dict the model iterates in its insertion order.                       *)
(***************************************************************************)
EXTENDS Integers, Sequences, FiniteSets, TLC

VARIABLES
    phase,            \* "startup", "serving" or "fatal": position of the process
    pdf_dir,          \* the directory tree PDF_DIR names (input of the build)
    documents,        \* module-level documents: doc_id -> record
    inverted_index,   \* module-level inverted_index: token -> (doc_id -> tf)
    idf,              \* module-level idf: token -> weight
    op,               \* the last call made: its name and arguments
    result            \* what that call returned

vars == <<phase, pdf_dir, documents, inverted_index, idf, op, result>>

-----------------------------------------------------------------------------
(* Characters and Python str methods *)

UpperChars == <<"A","B","C","D","E","F","G","H","I","J","K","L","M",
                "N","O","P","Q","R","S","T","U","V","W","X","Y","Z">>
LowerChars == <<"a","b","c","d","e","f","g","h","i","j","k","l","m",
                "n","o","p","q","r","s","t","u","v","w","x","y","z">>
DigitChars == <<"0","1","2","3","4","5","6","7","8","9">>

IndexOf(c, chars) == CHOOSE i \in 1..Len(chars) : chars[i] = c
IsUpper(c) == \E i \in 1..Len(UpperChars) : UpperChars[i] = c
IsLower(c) == \E i \in 1..Len(LowerChars) : LowerChars[i] = c
IsDigit(c) == \E i \in 1..Len(DigitChars) : DigitChars[i] = c

\* str.isspace for one character
IsSpace(c) == c \in {" ", "\t", "\n"}

\* the class \w of re
IsWordChar(c) == IsUpper(c) \/ IsLower(c) \/ IsDigit(c) \/ c = "_"

\* ord(c), for the comparison of str values
Ord(c) ==
    IF IsUpper(c) THEN 64 + IndexOf(c, UpperChars)
    ELSE IF IsLower(c) THEN 96 + IndexOf(c, LowerChars)
    ELSE IF IsDigit(c) THEN 47 + IndexOf(c, DigitChars)
    ELSE CASE c = "\t" -> 9  [] c = "\n" -> 10 [] c = " " -> 32
           [] c = "," -> 44  [] c = "-" -> 45  [] c = "." -> 46
           [] c = "/" -> 47  [] c = "_" -> 95

LowerChar(c) == IF IsUpper(c) THEN LowerChars[IndexOf(c, UpperChars)] ELSE c

\* str.lower()
Lower(s) == [i \in 1..Len(s) |-> LowerChar(s[i])]

\* str.strip()
Strip(s) ==
    LET keep == {i \in 1..Len(s) : ~IsSpace(s[i])}
    IN  IF keep = {} THEN <<>>
        ELSE LET lo == CHOOSE i \in keep : \A j \in keep : i <= j
                 hi == CHOOSE i \in keep : \A j \in keep : j <= i
             IN  SubSeq(s, lo, hi)

\* a < b for two str values (lexicographic on code points)
StrLess(a, b) ==
    \E k \in 1..(Len(b)) :
        /\ \A j \in 1..(k - 1) : j <= Len(a) /\ a[j] = b[j]
        /\ \/ k = Len(a) + 1
           \/ k <= Len(a) /\ Ord(a[k]) < Ord(b[k])

\* needle in hay
Contains(hay, needle) ==
    \E i \in 1..(Len(hay) + 1) :
        /\ i + Len(needle) - 1 <= Len(hay)
        /\ SubSeq(hay, i, i + Len(needle) - 1) = needle

\* str.endswith
EndsWith(s, suffix) ==
    /\ Len(suffix) <= Len(s)
    /\ SubSeq(s, Len(s) - Len(suffix) + 1, Len(s)) = suffix

\* The maximal runs of characters of one class, left to right: the runs of
\* word characters (re.findall(r"\w+", s)) or of non-space characters
\* (s.split()).
InClass(kind, c) == IF kind = "word" THEN IsWordChar(c) ELSE ~IsSpace(c)

RECURSIVE Runs(_, _, _, _, _)
Runs(kind, s, i, cur, acc) ==
    LET flushed == IF cur = <<>> THEN acc ELSE Append(acc, cur)
    IN  IF i > Len(s) THEN flushed
        ELSE IF InClass(kind, s[i])
             THEN Runs(kind, s, i + 1, Append(cur, s[i]), acc)
             ELSE Runs(kind, s, i + 1, <<>>, flushed)

FindAllWords(s) == Runs("word", s, 1, <<>>, <<>>)
Split(s) == Runs("field", s, 1, <<>>, <<>>)

\* os.path.basename: what follows the last "/"
Basename(path) ==
    LET slashes == {i \in 1..Len(path) : path[i] = "/"}
    IN  IF slashes = {} THEN path
        ELSE SubSeq(path, (CHOOSE i \in slashes : \A j \in slashes : j <= i) + 1,
                    Len(path))

Range(f) == {f[x] : x \in DOMAIN f}

\* the keys of a dict whose keys are integers inserted in ascending order
RECURSIVE KeysAscending(_)
KeysAscending(S) ==
    IF S = {} THEN <<>>
    ELSE LET m == CHOOSE x \in S : \A y \in S : x <= y
         IN  <<m>> \o KeysAscending(S \ {m})

-----------------------------------------------------------------------------
(* Configuration *)

PDF_DIR == <<"p","d","f","s">>

stopwords == { <<"t","h","e">>, <<"a","n","d">>, <<"o","f">>,
               <<"i","n">>, <<"t","o">>, <<"a">> }

-----------------------------------------------------------------------------
(* Tokenization and the inverted index *)

tokenize(text) ==
    LET tokens == FindAllWords(Lower(text))
    IN  SelectSeq(tokens, LAMBDA t : t \notin stopwords)

\* a count that records the presence of a token, not its occurrences
CounterOfPresence(tokens, i, counts) ==
    [t \in {tokens[k] : k \in i..Len(tokens)} \cup DOMAIN counts |-> 1]

\* collections.Counter(tokens): one increment per token of the sequence
RECURSIVE Counter(_, _, _)
Counter(tokens, i, counts) ==
    IF i > Len(tokens) THEN counts
    ELSE LET t == tokens[i]
         IN  Counter(tokens, i + 1,
                     IF t \in DOMAIN counts
                     THEN [counts EXCEPT ![t] = @ + 1]
                     ELSE counts @@ (t :> 1))

\* inverted_index[token][doc_id] = count on a defaultdict of defaultdicts
SetPosting(index, token, doc_id, count) ==
    IF token \in DOMAIN index
    THEN [index EXCEPT ![token] =
             IF doc_id \in DOMAIN @ THEN [@ EXCEPT ![doc_id] = count]
             ELSE @ @@ (doc_id :> count)]
    ELSE index @@ (token :> (doc_id :> count))

\* for token, count in tf_counts.items(): inverted_index[token][doc_id] = count
RECURSIVE AddPostings(_, _, _, _)
AddPostings(index, tf_counts, todo, doc_id) ==
    IF todo = {} THEN index
    ELSE LET token == CHOOSE t \in todo : TRUE
         IN  AddPostings(SetPosting(index, token, doc_id, tf_counts[token]),
                         tf_counts, todo \ {token}, doc_id)

\* os.walk(pdf_dir): the (root, files) pairs, top down; a directory that does
\* not exist yields nothing (os.walk ignores the listing error)
Walk(dir) == IF dir.exists THEN dir.entries ELSE <<>>

IsPdfName(f) == EndsWith(Lower(f), <<".","p","d","f">>)

\* the PDF files in the order the two loops of build_inverted_index meet them
RECURSIVE PdfFiles(_, _, _, _)
PdfFiles(walk, e, k, acc) ==
    IF e > Len(walk) THEN acc
    ELSE IF k > Len(walk[e].files) THEN PdfFiles(walk, e + 1, 1, acc)
    ELSE LET f == walk[e].files[k]
             current_category ==
                 IF walk[e].root = PDF_DIR
                 THEN <<"U","n","c","a","t","e","g","o","r","i","z","e","d">>
                 ELSE Basename(walk[e].root)
         IN  PdfFiles(walk, e, k + 1,
                 IF IsPdfName(f.name)
                 THEN Append(acc, [category |-> current_category,
                                   path |-> walk[e].root \o <<"/">> \o f.name,
                                   file |-> f])
                 ELSE acc)

\* extract_text_and_title raises when PyMuPDF cannot open the file
ExtractRaises(pdfs) == \E i \in 1..Len(pdfs) : ~pdfs[i].file.readable

\* the loop body of build_inverted_index for the pdfs from position i on
RECURSIVE IndexPdfs(_, _, _, _)
IndexPdfs(pdfs, i, docs, index) ==
    IF i > Len(pdfs) THEN [documents |-> docs, inverted_index |-> index]
    ELSE LET doc_id == i
             full_text == pdfs[i].file.text
             doc == [title |-> pdfs[i].file.title,
                     category |-> pdfs[i].category,
                     path |-> pdfs[i].path,
                     text |-> full_text]
             tf_counts == Counter(tokenize(full_text), 1, <<>>)
         IN  IndexPdfs(pdfs, i + 1, docs @@ (doc_id :> doc),
                       AddPostings(index, tf_counts, DOMAIN tf_counts, doc_id))


\* round(1000 * log10(n)): floats are fixed-point thousandths
Log10Milli ==
    <<0, 301, 477, 602, 699, 778, 845, 903, 954, 1000,
      1041, 1079, 1114, 1146, 1176, 1204, 1230, 1255, 1279, 1301,
      1322, 1342, 1362, 1380, 1398, 1415, 1431, 1447, 1462, 1477,
      1491, 1505, 1519, 1531, 1544, 1556, 1568, 1580, 1591, 1602>>

\* 1.0 in thousandths
One == Log10Milli[10]

RECURSIVE Gcd(_, _)
Gcd(a, b) == IF b = 0 THEN a ELSE Gcd(b, a % b)

\* math.log(n / d, 10): the quotient n / d is one float whatever the pair
\* (n, d) that gives it, so the fraction is reduced before the table is read
Log10Ratio(n, d) == Log10Milli[n \div Gcd(n, d)] - Log10Milli[d \div Gcd(n, d)]

\* lines 112-116: N, df and the idf table
ComputeIdf(docs, index) ==
    LET N == Cardinality(DOMAIN docs)
    IN  [token \in DOMAIN index |->
            LET df == Cardinality(DOMAIN index[token])
            IN  IF df # 0 THEN Log10Ratio(N, df) ELSE 0]

build_inverted_index(dir) ==
    LET built == IndexPdfs(PdfFiles(Walk(dir), 1, 1, <<>>), 1, <<>>, <<>>)
    IN  [documents |-> built.documents,
         inverted_index |-> built.inverted_index,
         idf |-> ComputeIdf(built.documents, built.inverted_index)]

-----------------------------------------------------------------------------
(* Python's sorted / list.sort *)

KeyLess(kind, a, b) == IF kind = "str" THEN StrLess(a, b) ELSE a < b

\* the stable ascending sort of its by ks (ks[i] is the key of its[i])
SortedAscending(its, ks, kind) ==
    LET n == Len(its)
        Rank(i) == Cardinality({j \in 1..n : KeyLess(kind, ks[j], ks[i])})
                   + Cardinality({j \in 1..(i - 1) :
                                     ~KeyLess(kind, ks[j], ks[i])
                                     /\ ~KeyLess(kind, ks[i], ks[j])})
                   + 1
    IN  CHOOSE sorted \in
            { [p \in 1..n |-> its[CHOOSE i \in 1..n : rank[i] = p]] :
                rank \in {[i \in 1..n |-> Rank(i)]} } : TRUE

\* the same, with the two lists evaluated once
StableSortAsc(items, keys, kind) ==
    CHOOSE sorted \in {SortedAscending(its, ks, kind) :
                         its \in {items}, ks \in {keys}} : TRUE

Reverse(s) == [i \in 1..Len(s) |-> s[Len(s) + 1 - i]]

\* a descending sort made by reversing the ascending one
SortedThenReversed(items, keys, kind, reverse) ==
    IF reverse
    THEN Reverse(StableSortAsc(items, keys, kind))
    ELSE StableSortAsc(items, keys, kind)

\* sorted(items, key=..., reverse=...): with reverse=True CPython reverses the
\* list, sorts it stably in ascending order and reverses the outcome
Sorted(items, keys, kind, reverse) ==
    IF reverse
    THEN Reverse(StableSortAsc(Reverse(items), Reverse(keys), kind))
    ELSE StableSortAsc(items, keys, kind)

\* key=lambda x: x[1]
SecondOf(items) == [i \in 1..Len(items) |-> items[i][2]]

-----------------------------------------------------------------------------
(* Search functions *)

tf_idf_score(tf, idf_value) ==
    IF tf > 0 THEN (One + Log10Milli[tf]) * idf_value ELSE 0

\* scores[doc_id] += v on a defaultdict(float); the dict is the sequence of
\* its (key, value) items in insertion order
AddScore(scores, doc_id, v) ==
    IF \E k \in 1..Len(scores) : scores[k][1] = doc_id
    THEN [k \in 1..Len(scores) |->
             IF scores[k][1] = doc_id THEN <<doc_id, scores[k][2] + v>>
             ELSE scores[k]]
    ELSE Append(scores, <<doc_id, 0 + v>>)

\* for doc_id, tf in inverted_index[token].items(): the postings of a token
\* were inserted in ascending doc_id order
RECURSIVE ScorePostings(_, _, _, _, _)
ScorePostings(scores, postings, ids, idf_value, allowed) ==
    IF ids = <<>> THEN scores
    ELSE LET doc_id == Head(ids)
         IN  ScorePostings(
                 IF doc_id \in allowed
                 THEN AddScore(scores, doc_id,
                               tf_idf_score(postings[doc_id], idf_value))
                 ELSE scores,
                 postings, Tail(ids), idf_value, allowed)

\* the loop over query_tokens shared by general_search (lines 130-133) and
\* search_by_category (lines 161-165, which adds the test on category_docs_set)
RECURSIVE ScoreTokens(_, _, _, _, _, _)
ScoreTokens(scores, query_tokens, i, index, idf_table, allowed) ==
    IF i > Len(query_tokens) THEN scores
    ELSE LET token == query_tokens[i]
         IN  ScoreTokens(
                 IF token \in DOMAIN index
                 THEN ScorePostings(scores, index[token],
                                    KeysAscending(DOMAIN index[token]),
                                    idf_table[token], allowed)
                 ELSE scores,
                 query_tokens, i + 1, index, idf_table, allowed)

general_search(query_tokens, docs, index, idf_table) ==
    LET scores == ScoreTokens(<<>>, query_tokens, 1, index, idf_table, DOMAIN docs)
    IN  Sorted(scores, SecondOf(scores), "num", TRUE)

\* a category search that compares the stored category as it is stored
search_by_category_exact(query_tokens, category, docs, index, idf_table) ==
    LET cat == Lower(Strip(category))
    IN  IF cat = <<>>
        THEN general_search(query_tokens, docs, index, idf_table)
        ELSE LET scores == ScoreTokens(<<>>, query_tokens, 1, index, idf_table,
                               {doc_id \in DOMAIN docs : docs[doc_id].category = cat})
             IN  Sorted(scores, SecondOf(scores), "num", TRUE)

\* a category search without the test of line 150
search_by_category_always_filters(query_tokens, category, docs, index, idf_table) ==
    LET cat == Lower(Strip(category))
        scores == ScoreTokens(<<>>, query_tokens, 1, index, idf_table,
                      {doc_id \in DOMAIN docs :
                          Lower(Strip(docs[doc_id].category)) = cat})
    IN  Sorted(scores, SecondOf(scores), "num", TRUE)

search_by_category(query_tokens, category, docs, index, idf_table) ==
    LET cat == Lower(Strip(category))
    IN  IF cat = <<>>
        THEN general_search(query_tokens, docs, index, idf_table)
        ELSE LET category_docs_set ==
                     {doc_id \in DOMAIN docs :
                         Lower(Strip(docs[doc_id].category)) = cat}
                 scores == ScoreTokens(<<>>, query_tokens, 1, index, idf_table,
                                       category_docs_set)
             IN  Sorted(scores, SecondOf(scores), "num", TRUE)

\* a ranked search that subscripts inverted_index with every query token,
\* without the test of line 131
general_search_subscripts_unguarded(query_tokens, index) ==
    {query_tokens[i] : i \in 1..Len(query_tokens)}

\* the keys with which a ranked search subscripts inverted_index: only those
\* that pass the test "token in inverted_index" (lines 131 and 162)
general_search_subscripts(query_tokens, index) ==
    {query_tokens[i] : i \in {j \in 1..Len(query_tokens) :
                                 query_tokens[j] \in DOMAIN index}}

\* inverted_index after it was subscripted with every key of keys: a
\* defaultdict inserts the default value (an empty posting dict) for a key
\* it does not hold
AfterSubscripts(index, keys) ==
    [token \in DOMAIN index \cup keys |->
        IF token \in DOMAIN index THEN index[token] ELSE <<>>]

search_by_phrase(phrase, docs) ==
    LET ids == KeysAscending(DOMAIN docs)
        hits == SelectSeq(ids, LAMBDA d : Contains(Lower(docs[d].text), Lower(phrase)))
        results == [k \in 1..Len(hits) |-> <<hits[k], Len(phrase)>>]
    IN  Sorted(results, SecondOf(results), "num", TRUE)

\* partial_ratio is rapidfuzz's fuzz.partial_ratio, given as a function of
\* the pair (query.lower(), title)
search_by_title(query, docs, partial_ratio) ==
    LET ids == KeysAscending(DOMAIN docs)
        ratio(d) == partial_ratio[<<Lower(query), Lower(docs[d].title)>>]
        hits == SelectSeq(ids, LAMBDA d : ratio(d) > 60)
        results == [k \in 1..Len(hits) |-> <<hits[k], ratio(hits[k])>>]
    IN  Sorted(results, SecondOf(results), "num", TRUE)


\* a fuzzy search that re-ranks every ranked result, not the first 20
fuzzy_search_uncut(query, docs, index, idf_table, token_set_ratio) ==
    LET initial_results == general_search(tokenize(query), docs, index, idf_table)
        text_block(d) == docs[d].title \o <<" ">> \o docs[d].text
        reranked == [k \in 1..Len(initial_results) |->
                        <<initial_results[k][1],
                          token_set_ratio[<<Lower(query),
                                            Lower(text_block(initial_results[k][1]))>>]>>]
    IN  Sorted(reranked, SecondOf(reranked), "num", TRUE)

\* token_set_ratio is rapidfuzz's fuzz.token_set_ratio, given as a function
\* of the pair (query.lower(), text_block.lower())
fuzzy_search(query, docs, index, idf_table, token_set_ratio) ==
    LET query_tokens == tokenize(query)
        initial_results == general_search(query_tokens, docs, index, idf_table)
        top_results == SubSeq(initial_results, 1,
                              IF Len(initial_results) < 20
                              THEN Len(initial_results) ELSE 20)
        text_block(d) == docs[d].title \o <<" ">> \o docs[d].text
        reranked == [k \in 1..Len(top_results) |->
                        <<top_results[k][1],
                          token_set_ratio[<<Lower(query),
                                            Lower(text_block(top_results[k][1]))>>]>>]
    IN  Sorted(reranked, SecondOf(reranked), "num", TRUE)

sort_results(results, docs, sort_by, ascending) ==
    LET n == Len(results)
    IN  IF sort_by = "relevance"
        THEN Sorted(results, SecondOf(results), "num", ~ascending)
        ELSE IF sort_by = "title"
        THEN Sorted(results, [k \in 1..n |-> Lower(docs[results[k][1]].title)],
                    "str", ~ascending)
        ELSE IF sort_by = "category"
        THEN Sorted(results, [k \in 1..n |-> Lower(docs[results[k][1]].category)],
                    "str", ~ascending)
        ELSE IF sort_by = "length"
        THEN Sorted(results, [k \in 1..n |-> Len(docs[results[k][1]].text)],
                    "num", ~ascending)
        ELSE Sorted(results, SecondOf(results), "num", ~ascending)

-----------------------------------------------------------------------------
(* Proximity search *)

Abs(x) == IF x < 0 THEN -x ELSE x

\* [i for i, word in enumerate(text) if word == term], positions from 0
Positions(text, term) ==
    SelectSeq([i \in 1..Len(text) |-> i - 1], LAMBDA p : text[p + 1] = term)

\* the scan of the second term without the break of line 355
RECURSIVE ScanSecondNoBreak(_, _, _, _, _)
ScanSecondNoBreak(doc_id, p1, p2s, k, max_distance) ==
    IF k > Len(p2s) THEN <<>>
    ELSE (IF Abs(p1 - p2s[k]) <= max_distance
          THEN << <<doc_id, max_distance - Abs(p1 - p2s[k])>> >>
          ELSE <<>>)
         \o ScanSecondNoBreak(doc_id, p1, p2s, k + 1, max_distance)

\* for p2 in positions[terms[i + 1]]: the first p2 within max_distance
\* appends one entry and leaves the loop
RECURSIVE ScanSecond(_, _, _, _, _)
ScanSecond(doc_id, p1, p2s, k, max_distance) ==
    IF k > Len(p2s) THEN <<>>
    ELSE IF Abs(p1 - p2s[k]) <= max_distance
         THEN << <<doc_id, max_distance - Abs(p1 - p2s[k])>> >>
         ELSE ScanSecond(doc_id, p1, p2s, k + 1, max_distance)

RECURSIVE ScanFirst(_, _, _, _, _)
ScanFirst(doc_id, p1s, k, p2s, max_distance) ==
    IF k > Len(p1s) THEN <<>>
    ELSE ScanSecond(doc_id, p1s[k], p2s, 1, max_distance)
         \o ScanFirst(doc_id, p1s, k + 1, p2s, max_distance)

\* for i in range(len(terms) - 1)
RECURSIVE ScanPairs(_, _, _, _, _)
ScanPairs(doc_id, text, terms, i, max_distance) ==
    IF i > Len(terms) - 1 THEN <<>>
    ELSE ScanFirst(doc_id, Positions(text, terms[i]), 1,
                   Positions(text, terms[i + 1]), max_distance)
         \o ScanPairs(doc_id, text, terms, i + 1, max_distance)

RECURSIVE ScanDocuments(_, _, _, _)
ScanDocuments(ids, docs, terms, max_distance) ==
    IF ids = <<>> THEN <<>>
    ELSE ScanPairs(Head(ids), Split(Lower(docs[Head(ids)].text)), terms, 1,
                   max_distance)
         \o ScanDocuments(Tail(ids), docs, terms, max_distance)

search_by_proximity(terms, max_distance, docs) ==
    LET results == ScanDocuments(KeysAscending(DOMAIN docs), docs, terms,
                                 max_distance)
    IN  Sorted(results, SecondOf(results), "num", TRUE)

-----------------------------------------------------------------------------
(* Boolean search *)

OperatorWords == { <<"a","n","d">>, <<"o","r">>, <<"n","o","t">> }

\* the first index >= p of s that holds no white space (Len(s) + 1 if none)
SkipSpaces(s, p) ==
    LET stops == {q \in p..Len(s) : ~IsSpace(s[q])}
    IN  IF stops = {} THEN Len(s) + 1
        ELSE CHOOSE q \in stops : \A r \in stops : q <= r

\* the match of \s+(and|or|not)\s+ that starts at p, if there is one
MatchesAt(s, p) ==
    LET q == SkipSpaces(s, p)
    IN  { [word |-> w, end |-> SkipSpaces(s, q + Len(w))] :
            w \in { v \in OperatorWords :
                      /\ p <= Len(s) /\ IsSpace(s[p])
                      /\ q + Len(v) <= Len(s)
                      /\ SubSeq(s, q, q + Len(v) - 1) = v
                      /\ IsSpace(s[q + Len(v)]) } }

\* re.split(r"\s+(and|or|not)\s+", s): the text between the matches and,
\* after each, the operator the match captured
RECURSIVE ReSplit(_, _, _)
ReSplit(s, from, acc) ==
    LET starts == {p \in from..Len(s) : MatchesAt(s, p) # {}}
    IN  IF starts = {} THEN Append(acc, SubSeq(s, from, Len(s)))
        ELSE LET p == CHOOSE x \in starts : \A y \in starts : x <= y
                 m == CHOOSE x \in MatchesAt(s, p) : TRUE
             IN  ReSplit(s, m.end,
                         Append(Append(acc, SubSeq(s, from, p - 1)), m.word))

\* set(inverted_index[token].keys()) if token in inverted_index else set()
TokenResults(index, token) ==
    IF token \in DOMAIN index THEN DOMAIN index[token] ELSE {}

\* lines 384-392: what one operand does to the accumulated set
Combine(results, previous, token_results) ==
    IF previous = <<"n","o","t">> THEN results \ token_results
    ELSE IF previous = <<"o","r">> THEN results \cup token_results
    ELSE IF results = {} THEN token_results
         ELSE results \cap token_results

\* for i, token in enumerate(tokens)
RECURSIVE BooleanLoop(_, _, _, _)
BooleanLoop(tokens, i, results, index) ==
    IF i > Len(tokens) THEN results
    ELSE LET token == Strip(tokens[i])
         IN  IF token \in OperatorWords
             THEN BooleanLoop(tokens, i + 1, results, index)
             ELSE BooleanLoop(tokens, i + 1,
                      Combine(results,
                              IF i > 1 THEN tokens[i - 1] ELSE <<>>,
                              TokenResults(index, token)),
                      index)

\* the set results at line 394
boolean_search(query, index) ==
    BooleanLoop(ReSplit(Lower(query), 1, <<>>), 1, {}, index)

\* the keys with which boolean_search subscripts inverted_index (line 383)
boolean_search_subscripts(query, index) ==
    LET tokens == ReSplit(Lower(query), 1, <<>>)
    IN  {t \in {Strip(tokens[i]) : i \in 1..Len(tokens)} :
            t \notin OperatorWords /\ t \in DOMAIN index}


-----------------------------------------------------------------------------
(* Process: the module is imported (the index is built), then requests are
   served one after the other; each route calls one search function, the
   routes /search and /search/by_category then call sort_results, and the
   route returns its response *)

NoCall == [name |-> "none"]

Idle == phase = "serving" /\ op = NoCall

\* line 250, when every PDF can be read: the three module-level names are
\* bound and the application starts to serve
Build ==
    /\ phase = "startup"
    /\ ~ExtractRaises(PdfFiles(Walk(pdf_dir), 1, 1, <<>>))
    /\ LET built == build_inverted_index(pdf_dir)
       IN  /\ documents' = built.documents
           /\ inverted_index' = built.inverted_index
           /\ idf' = built.idf
    /\ phase' = "serving"
    /\ UNCHANGED <<pdf_dir, op, result>>

\* line 250, when extract_text_and_title raises: the import of the module
\* fails and nothing is served
BuildFails ==
    /\ phase = "startup"
    /\ ExtractRaises(PdfFiles(Walk(pdf_dir), 1, 1, <<>>))
    /\ phase' = "fatal"
    /\ UNCHANGED <<pdf_dir, documents, inverted_index, idf, op, result>>

GeneralSearch(Queries) ==
    /\ Idle
    /\ \E query_tokens \in Queries :
        /\ op' = [name |-> "general_search", query_tokens |-> query_tokens]
        /\ result' = general_search(query_tokens, documents, inverted_index, idf)
        /\ inverted_index' = AfterSubscripts(inverted_index,
               general_search_subscripts(query_tokens, inverted_index))
    /\ UNCHANGED <<phase, pdf_dir, documents, idf>>

SearchByCategory(Queries, Categories) ==
    /\ Idle
    /\ \E query_tokens \in Queries, category \in Categories :
        /\ op' = [name |-> "search_by_category", query_tokens |-> query_tokens,
                  category |-> category]
        /\ result' = search_by_category(query_tokens, category, documents,
                                        inverted_index, idf)
        /\ inverted_index' = AfterSubscripts(inverted_index,
               general_search_subscripts(query_tokens, inverted_index))
    /\ UNCHANGED <<phase, pdf_dir, documents, idf>>

SearchByPhrase(Phrases) ==
    /\ Idle
    /\ \E phrase \in Phrases :
        /\ op' = [name |-> "search_by_phrase", phrase |-> phrase]
        /\ result' = search_by_phrase(phrase, documents)
    /\ UNCHANGED <<phase, pdf_dir, documents, inverted_index, idf>>

\* fuzz.partial_ratio is any function into Ratios
SearchByTitle(Queries, Ratios) ==
    /\ Idle
    /\ \E query \in Queries :
       \E partial_ratio \in
            [{<<Lower(query), Lower(documents[d].title)>> : d \in DOMAIN documents}
                -> Ratios] :
        /\ op' = [name |-> "search_by_title", query |-> query,
                  ratio |-> partial_ratio]
        /\ result' = search_by_title(query, documents, partial_ratio)
    /\ UNCHANGED <<phase, pdf_dir, documents, inverted_index, idf>>

\* fuzz.token_set_ratio is any function into Ratios
FuzzySearch(Queries, Ratios) ==
    /\ Idle
    /\ \E query \in Queries :
       \E token_set_ratio \in
            [{<<Lower(query),
                Lower(documents[d].title \o <<" ">> \o documents[d].text)>> :
                    d \in DOMAIN documents} -> Ratios] :
        /\ op' = [name |-> "fuzzy_search", query |-> query,
                  ratio |-> token_set_ratio]
        /\ result' = fuzzy_search(query, documents, inverted_index, idf,
                                  token_set_ratio)
        /\ inverted_index' = AfterSubscripts(inverted_index,
               general_search_subscripts(tokenize(query), inverted_index))
    /\ UNCHANGED <<phase, pdf_dir, documents, idf>>

SearchByProximity(TermLists, Distances) ==
    /\ Idle
    /\ \E terms \in TermLists, max_distance \in Distances :
        /\ op' = [name |-> "search_by_proximity", terms |-> terms,
                  max_distance |-> max_distance]
        /\ result' = search_by_proximity(terms, max_distance, documents)
    /\ UNCHANGED <<phase, pdf_dir, documents, inverted_index, idf>>

\* the orders in which a list can be made of a set (the iteration order of a
\* Python set is not specified)
Orderings(S) ==
    {o \in [1..Cardinality(S) -> S] : \A d \in S : \E k \in DOMAIN o : o[k] = d}

\* line 395 makes the list in the iteration order of the set
BooleanSearch(Queries) ==
    /\ Idle
    /\ \E query \in Queries :
       \E order \in Orderings(boolean_search(query, inverted_index)) :
        /\ op' = [name |-> "boolean_search", query |-> query]
        /\ result' = [k \in DOMAIN order |->
                         <<order[k], Len(documents[order[k]].text)>>]
        /\ inverted_index' = AfterSubscripts(inverted_index,
               boolean_search_subscripts(query, inverted_index))
    /\ UNCHANGED <<phase, pdf_dir, documents, idf>>

SortKeys == {"relevance", "title", "category", "length", "date"}

SortResults(ResultLists) ==
    /\ phase = "serving"
    /\ \E results \in ResultLists, sort_by \in SortKeys, ascending \in BOOLEAN :
        /\ op' = [name |-> "sort_results", results |-> results,
                  sort_by |-> sort_by, ascending |-> ascending]
        /\ result' = sort_results(results, documents, sort_by, ascending)
    /\ UNCHANGED <<phase, pdf_dir, documents, inverted_index, idf>>

\* the route returns: the locals of the request are gone
Respond ==
    /\ phase = "serving"
    /\ op # NoCall
    /\ op' = NoCall
    /\ result' = <<>>
    /\ UNCHANGED <<phase, pdf_dir, documents, inverted_index, idf>>

InitOver(Dirs) ==
    /\ phase = "startup"
    /\ pdf_dir \in Dirs
    /\ documents = <<>>
    /\ inverted_index = <<>>
    /\ idf = <<>>
    /\ op = NoCall
    /\ result = <<>>

-----------------------------------------------------------------------------
(* Inputs *)

\* sep.join(words)
RECURSIVE JoinWords(_, _)
JoinWords(words, sep) ==
    IF words = <<>> THEN <<>>
    ELSE IF Len(words) = 1 THEN words[1]
    ELSE words[1] \o sep \o JoinWords(Tail(words), sep)

\* the sequences of at most n elements of S
SeqsUpTo(S, n) == UNION {[1..k -> S] : k \in 0..n}

Pdf(name, title, text) ==
    [name |-> name, readable |-> TRUE, title |-> title, text |-> text]

DamagedPdf == [name |-> <<"d",".","p","d","f">>, readable |-> FALSE,
               title |-> <<>>, text |-> <<>>]

\* PDF_DIR with files of its own and two subdirectories
Tree(top_files, root1, files1, root2, files2) ==
    [exists |-> TRUE,
     entries |-> << [root |-> PDF_DIR, files |-> top_files],
                    [root |-> root1, files |-> files1],
                    [root |-> root2, files |-> files2] >>]

MissingDir == [exists |-> FALSE, entries |-> <<>>]

NewsRoot == PDF_DIR \o <<"/","N","e","w","s">>
LowerNewsRoot == PDF_DIR \o <<"/","n","e","w","s"," ">>

-----------------------------------------------------------------------------
(* Spec: startup and every route *)

MaxLifeFiles == 1

LifeFiles ==
    { Pdf(<<"a",".","p","d","f">>, <<"T","i","t","l","e">>, <<"x">>),
      Pdf(<<"b",".","P","D","F">>, <<"x"," ","y">>,
          <<"T","h","e"," ","y",","," ","x"," ","Y">>),
      Pdf(<<"c",".","p","d","f">>, <<"Z">>, <<>>),
      DamagedPdf,
      Pdf(<<"n",".","t","x","t">>, <<"n">>, <<"z">>) }

LifeDirs ==
    {MissingDir} \cup
    { Tree(top, NewsRoot, sub, LowerNewsRoot, <<>>) :
        top \in SeqsUpTo(LifeFiles, MaxLifeFiles), sub \in SeqsUpTo(LifeFiles, 1) }

LifeTokenLists == { << <<"w">> >>, << <<"y">>, <<"x">> >> }
LifeCategories == { <<>>, <<"n","e","w","s">> }
LifeStrings == { <<"X"," ","y">>, <<"w">> }
LifeRatios == {60, 100}
LifeBooleans == { <<"w">>, <<"x"," ","o","r"," ","w">>,
                  <<"w"," ","A","N","D"," ","y">> }
LifeTermLists == { << <<"x">>, <<"y">> >> }

\* what the routes hand to sort_results: the list the search just returned
LastResults ==
    IF op.name \in {"general_search", "search_by_category"} THEN {result} ELSE {}

Init == InitOver(LifeDirs)

Next ==
    \/ Build
    \/ BuildFails
    \/ GeneralSearch(LifeTokenLists)
    \/ SearchByCategory(LifeTokenLists, LifeCategories)
    \/ SearchByPhrase(LifeStrings)
    \/ SearchByTitle(LifeStrings, LifeRatios)
    \/ FuzzySearch(LifeStrings, LifeRatios)
    \/ SearchByProximity(LifeTermLists, {1})
    \/ BooleanSearch(LifeBooleans)
    \/ SortResults(LastResults)
    \/ Respond

Spec == Init /\ [][Next]_vars

\* the corpus source is unreadable or empty
NoCorpus == ~pdf_dir.exists \/ PdfFiles(Walk(pdf_dir), 1, 1, <<>>) = <<>>

\* C6: when the PDF directory is missing or holds no PDF, startup ends in a
\* fatal error: no index is built and the process never serves queries.
C6_NoCorpusIsFatal ==
    NoCorpus => /\ phase \in {"startup", "fatal"}
                /\ inverted_index = <<>>

\* what the build made of pdf_dir
Built == build_inverted_index(pdf_dir)

-----------------------------------------------------------------------------
(* SpecBuild: the build over every short text *)

MaxTextLen == 3
MaxMoreFiles == 1

BuildChars == {"a", "b", "B", " "}

BuildTexts == SeqsUpTo(BuildChars, MaxTextLen)

MoreFiles ==
    { Pdf(<<"b",".","p","d","f">>, <<"T">>, <<"b">>),
      Pdf(<<"c",".","p","d","f">>, <<"T">>, <<"B","a"," ","b",","," ","a"," ","b">>),
      Pdf(<<"n",".","t","x","t">>, <<"n">>, <<"b"," ","z">>),
      DamagedPdf }

BuildDirs ==
    {MissingDir} \cup
    { Tree(<<Pdf(<<"a",".","p","d","f">>, <<"T">>, text)>>, NewsRoot, more,
           LowerNewsRoot, <<>>) :
        text \in BuildTexts, more \in SeqsUpTo(MoreFiles, MaxMoreFiles) }

InitBuild == InitOver(BuildDirs)

NextBuild ==
    \/ Build
    \/ BuildFails
    \/ GeneralSearch({<< <<"b">> >>})
    \/ Respond

SpecBuild == InitBuild /\ [][NextBuild]_vars

\* the number of occurrences of term t in the tokenized text of document d
Occurrences(t, d) ==
    LET tokens == tokenize(documents[d].text)
    IN  Cardinality({i \in 1..Len(tokens) : tokens[i] = t})

AllTerms ==
    DOMAIN inverted_index
    \cup UNION {Range(tokenize(documents[d].text)) : d \in DOMAIN documents}

\* C8: after the build, the index holds a posting (t, d) exactly when t occurs
\* in the tokenized text of d, the posting is the number of occurrences, and
\* no term has more postings than there are documents.
C8_PostingsAreTermCounts ==
    phase = "serving" =>
        /\ \A t \in AllTerms, d \in DOMAIN documents :
            /\ (t \in DOMAIN inverted_index /\ d \in DOMAIN inverted_index[t])
                   <=> Occurrences(t, d) >= 1
            /\ Occurrences(t, d) >= 1 => inverted_index[t][d] = Occurrences(t, d)
        /\ \A t \in DOMAIN inverted_index :
            /\ DOMAIN inverted_index[t] \subseteq DOMAIN documents
            /\ Cardinality(DOMAIN inverted_index[t]) <= Cardinality(DOMAIN documents)

\* two documents share a term, one holds it twice, and a stop word was left out
C8_Witness ==
    /\ phase = "serving"
    /\ Cardinality(DOMAIN documents) = 2
    /\ documents[1].text = <<"a", " ", "B">>
    /\ DOMAIN inverted_index[<<"b">>] = {1, 2}
    /\ inverted_index[<<"b">>][2] = 2
    /\ <<"a">> \notin DOMAIN inverted_index


-----------------------------------------------------------------------------
(* SpecRanked: ranked search and category search *)

MaxRankFiles == 1
MaxQueryLen == 2

RankFiles ==
    { Pdf(<<"a",".","p","d","f">>, <<"T">>, <<"x">>),
      Pdf(<<"b",".","p","d","f">>, <<"T">>, <<"x"," ","X"," ","y">>),
      Pdf(<<"c",".","p","d","f">>, <<"T">>, <<"y">>) }

RankDirs ==
    { Tree(top, NewsRoot, f1, LowerNewsRoot, f2) :
        top \in SeqsUpTo(RankFiles, MaxRankFiles),
        f1 \in SeqsUpTo(RankFiles, 1),
        f2 \in SeqsUpTo(RankFiles, 1) }

RankQueries == SeqsUpTo({<<"x">>, <<"y">>}, MaxQueryLen)

RankCategories ==
    { <<>>, <<" "," ">>, <<" ","N","E","W","S","\t">>, <<"n","e","w","s">>,
      <<"u","n","c","a","t","e","g","o","r","i","z","e","d">> }

InitRanked == InitOver(RankDirs)

NextRanked ==
    \/ Build
    \/ GeneralSearch(RankQueries)
    \/ SearchByCategory(RankQueries, RankCategories)
    \/ Respond

SpecRanked == InitRanked /\ [][NextRanked]_vars

\* document d holds term t
Holds(d, t) == \E i \in DOMAIN tokenize(documents[d].text) :
                   tokenize(documents[d].text)[i] = t

\* C2: general_search returns exactly the documents whose accumulated score
\* is nonzero: no returned pair has score 0, and a document that holds none
\* of the query terms is not returned.
C2_NoZeroScore ==
    (phase = "serving" /\ op.name = "general_search") =>
        \A k \in DOMAIN result :
            /\ result[k][2] # 0
            /\ \E i \in DOMAIN op.query_tokens :
                   Holds(result[k][1], op.query_tokens[i])

\* the two categories are equal when case and surrounding white space are
\* left out
SameCategory(a, b) == Lower(Strip(a)) = Lower(Strip(b))

\* C3: for a category that is not empty once trimmed, search_by_category
\* returns the entries of general_search's result, for the same query, whose
\* document is of that category (case and surrounding white space left out):
\* same documents, same scores, same relative order.
C3_CategoryIsFilteredRanked ==
    (phase = "serving" /\ op.name = "search_by_category"
        /\ Strip(op.category) # <<>>) =>
        result = SelectSeq(
                     general_search(op.query_tokens, documents, inverted_index, idf),
                     LAMBDA e : SameCategory(documents[e[1]].category, op.category))

\* two documents of the category, stored as "News" and "news ", are returned
\* with different scores and a third document of another category is left out
C3_Witness ==
    /\ phase = "serving"
    /\ op.name = "search_by_category"
    /\ op.category = <<" ","N","E","W","S","\t">>
    /\ Len(result) = 2
    /\ result[1][2] > result[2][2]
    /\ result[1][1] > result[2][1]
    /\ documents[result[1][1]].category # documents[result[2][1]].category
    /\ Len(general_search(op.query_tokens, documents, inverted_index, idf)) = 3

\* C4: with an empty category, or one of white space only, search_by_category
\* returns the same pairs in the same order as general_search on the same
\* query tokens.
C4_EmptyCategoryIsRanked ==
    (phase = "serving" /\ op.name = "search_by_category"
        /\ Strip(op.category) = <<>>) =>
        result = general_search(op.query_tokens, documents, inverted_index, idf)

\* a category of two spaces returned three documents of three categories
C4_Witness ==
    /\ phase = "serving"
    /\ op.name = "search_by_category"
    /\ op.category = <<" "," ">>
    /\ Len(result) = 3
    /\ result[1][2] > result[3][2]


-----------------------------------------------------------------------------
(* SpecBoolean: boolean queries of one, two and three operands *)

MaxBoolFiles == 2

BoolFiles ==
    { Pdf(<<"a",".","p","d","f">>, <<"T">>, text) :
        text \in { <<"x">>, <<"y">>, <<"z">>, <<"x"," ","y">>, <<"Y"," ","z">> } }

BoolDirs ==
    { Tree(top, NewsRoot, <<>>, LowerNewsRoot, <<>>) :
        top \in SeqsUpTo(BoolFiles, MaxBoolFiles) }

BoolOperands == { <<"x">>, <<"y">>, <<"z">> }
BoolOperators == { <<"a","n","d">>, <<"O","R">>, <<"n","o","t">> }

\* operand, operator, operand, ...
BoolParts ==
    { <<a>> : a \in BoolOperands }
    \cup { <<a, o, b>> : a \in BoolOperands, o \in BoolOperators, b \in BoolOperands }
    \cup { <<a, o, b, p, c>> :
             a \in BoolOperands, o \in BoolOperators, b \in BoolOperands,
             p \in BoolOperators, c \in BoolOperands }

BoolQueries == { JoinWords(parts, <<" ">>) : parts \in BoolParts }

InitBoolean == InitOver(BoolDirs)

NextBoolean ==
    \/ Build
    \/ BooleanSearch(BoolQueries)
    \/ Respond

SpecBoolean == InitBoolean /\ [][NextBoolean]_vars

\* the documents that hold a posting of the operand; none if it is absent
Postings(operand) ==
    IF operand \in DOMAIN inverted_index THEN DOMAIN inverted_index[operand] ELSE {}

\* the fold from the left: union for or, difference for not, intersection
\* for and
RECURSIVE LeftFold(_, _, _)
LeftFold(parts, k, acc) ==
    IF k > Len(parts) THEN acc
    ELSE LET operator == Lower(parts[k])
             set == Postings(Lower(parts[k + 1]))
         IN  LeftFold(parts, k + 2,
                      IF operator = <<"o","r">> THEN acc \cup set
                      ELSE IF operator = <<"n","o","t">> THEN acc \ set
                      ELSE acc \cap set)

\* C1: boolean_search is the fold from the left, with no precedence, that
\* starts from the postings of the first operand; an absent operand counts as
\* the empty set.  So "a or b and c" returns (postings(a) \cup postings(b))
\* \cap postings(c), also when the set is empty before the "and".
C1_LeftToRightFold ==
    (phase = "serving" /\ op.name = "boolean_search") =>
        \A parts \in BoolParts :
            op.query = JoinWords(parts, <<" ">>) =>
                /\ {result[k][1] : k \in DOMAIN result}
                       = LeftFold(parts, 2, Postings(Lower(parts[1])))
                /\ (Len(parts) = 5 /\ Lower(parts[2]) = <<"o","r">>
                        /\ Lower(parts[4]) = <<"a","n","d">>) =>
                       {result[k][1] : k \in DOMAIN result}
                           = (Postings(parts[1]) \cup Postings(parts[3]))
                                 \cap Postings(parts[5])

-----------------------------------------------------------------------------
(* SpecProximity: proximity search over every short text *)

MaxWords == 3
MaxTerms == 3
MaxDistance == 2

Alpha == <<"a","l","p","h","a">>
Beta == <<"b","e","t","a">>
AlphaXBeta == Alpha \o <<" ","x"," ">> \o Beta

ProxTexts ==
    { JoinWords(ws, <<" ">>) : ws \in SeqsUpTo({<<"x">>, <<"y">>}, MaxWords) }
    \cup { AlphaXBeta, <<"Y","\t"," ","X">>, <<"x",","," ","y">> }

ProxDirs ==
    { Tree(<<Pdf(<<"a",".","p","d","f">>, <<"T">>, text)>>, NewsRoot, more,
           LowerNewsRoot, <<>>) :
        text \in ProxTexts,
        more \in SeqsUpTo({Pdf(<<"b",".","p","d","f">>, <<"T">>, <<"y"," ","x">>)}, 1) }

ProxTermLists ==
    SeqsUpTo({<<"x">>, <<"y">>}, MaxTerms)
    \cup { <<Alpha, Beta>>, << <<"X">>, <<"y">> >> }

InitProximity == InitOver(ProxDirs)

NextProximity ==
    \/ Build
    \/ SearchByProximity(ProxTermLists, (-1)..MaxDistance)
    \/ Respond

SpecProximity == InitProximity /\ [][NextProximity]_vars

\* the words of document d and the positions, from 0, of a term among them
WordsOf(d) == Split(Lower(documents[d].text))
PositionsOf(d, term) ==
    UNION { {p \in 0..(Len(ws) - 1) : ws[p + 1] = term} : ws \in {WordsOf(d)} }

\* the positions of the next term within the distance of position p1
Near(d, i, p1) ==
    {p2 \in PositionsOf(d, op.terms[i + 1]) : Abs(p1 - p2) <= op.max_distance}

\* (document, pair of adjacent terms, position of the first term) with a
\* position of the second term within the distance
Sites ==
    {site \in UNION { {<<d, i, p1>> : p1 \in PositionsOf(d, op.terms[i])} :
                        d \in DOMAIN documents, i \in 1..(Len(op.terms) - 1) } :
        Near(site[1], site[2], site[3]) # {}}

\* the score of the first position, in ascending order, within the distance
SiteScore(site) ==
    LET near == Near(site[1], site[2], site[3])
        first == CHOOSE p2 \in near : \A q \in near : p2 <= q
    IN  op.max_distance - Abs(site[3] - first)

\* C5: search_by_proximity returns one entry for every document, adjacent
\* pair of terms and position of the first term that has a position of the
\* second term within max_distance, and no other entry; the entry's score is
\* max_distance - |p1 - p2| for the first such p2, so it lies in
\* 0..max_distance.  On "alpha x beta" with [alpha, beta], distance 2 gives
\* one match of score 0 and distance 1 gives none.
C5_OneEntryPerNearPosition ==
    (phase = "serving" /\ op.name = "search_by_proximity") =>
        /\ \A sites \in {Sites} :
               /\ Len(result) = Cardinality(sites)
               /\ \A d \in DOMAIN documents, s \in 0..op.max_distance :
                      Cardinality({k \in DOMAIN result : result[k] = <<d, s>>})
                          = Cardinality({site \in sites :
                                            site[1] = d /\ SiteScore(site) = s})
        /\ \A k \in DOMAIN result : result[k][2] \in 0..op.max_distance
        /\ (documents[1].text = AlphaXBeta /\ DOMAIN documents = {1}
                /\ op.terms = <<Alpha, Beta>>) =>
               /\ op.max_distance = 2 => result = << <<1, 0>> >>
               /\ op.max_distance = 1 => result = <<>>

\* "alpha x beta", [alpha, beta], distance 2: one match of score 0
C5_Witness ==
    /\ phase = "serving"
    /\ op.name = "search_by_proximity"
    /\ documents[1].text = AlphaXBeta
    /\ op.terms = <<Alpha, Beta>>
    /\ op.max_distance = 2
    /\ result = << <<1, 0>> >>


-----------------------------------------------------------------------------
(* SpecSort: sort_results over every short result list *)

MaxResults == 3

\* titles, categories and lengths with ties: "a" and "A", two documents of
\* one category, two texts of one length
SortDirs ==
    { Tree(top,
           NewsRoot, << Pdf(<<"b",".","p","d","f">>, <<"a">>, <<"y"," ","y">>),
                        Pdf(<<"c",".","p","d","f">>, <<"A">>, <<"y">>) >>,
           LowerNewsRoot, <<>>) :
        top \in SeqsUpTo({Pdf(<<"a",".","p","d","f">>, <<"b"," ","c">>, <<"x">>)}, 1) }

\* the lists of (doc_id, score) pairs over the stored documents
SortInputs ==
    IF Idle THEN SeqsUpTo((DOMAIN documents) \X {0, 1}, MaxResults) ELSE {}

InitSort == InitOver(SortDirs)

NextSort ==
    \/ Build
    \/ SortResults(SortInputs)
    \/ Respond

SpecSort == InitSort /\ [][NextSort]_vars

\* entry e comes strictly before entry f in ascending order of the sort key
Before(e, f) ==
    IF op.sort_by = "title"
    THEN StrLess(Lower(documents[e[1]].title), Lower(documents[f[1]].title))
    ELSE IF op.sort_by = "category"
    THEN StrLess(Lower(documents[e[1]].category), Lower(documents[f[1]].category))
    ELSE IF op.sort_by = "length"
    THEN Len(documents[e[1]].text) < Len(documents[f[1]].text)
    ELSE e[2] < f[2]

SameKey(e, f) == ~Before(e, f) /\ ~Before(f, e)

\* C9: sort_results is idempotent and stable: sorting its output again with
\* the same key and direction returns the same sequence; the output is a
\* permutation of the input in the order of the key, and entries with equal
\* keys keep their input order, ascending and descending.
C9_SortIsStableAndIdempotent ==
    (phase = "serving" /\ op.name = "sort_results") =>
        /\ sort_results(result, documents, op.sort_by, op.ascending) = result
        /\ Len(result) = Len(op.results)
        /\ \A i, j \in DOMAIN result :
               i < j => IF op.ascending THEN ~Before(result[j], result[i])
                                        ELSE ~Before(result[i], result[j])
        /\ \E pi \in Permutations(DOMAIN result) :
               /\ \A k \in DOMAIN result : result[k] = op.results[pi[k]]
               /\ \A i, j \in DOMAIN result :
                      (i < j /\ SameKey(result[i], result[j])) => pi[i] < pi[j]

\* a descending sort by title of three entries, two of them with titles "a"
\* and "A" and different scores, kept in their input order after "b c"
C9_Witness ==
    /\ phase = "serving"
    /\ op.name = "sort_results"
    /\ op.sort_by = "title"
    /\ ~op.ascending
    /\ op.results = << <<3, 0>>, <<1, 1>>, <<2, 1>> >>
    /\ result = << <<1, 1>>, <<3, 0>>, <<2, 1>> >>

-----------------------------------------------------------------------------
(* SpecFuzzy: content-fuzzy search over corpora of up to MaxFuzzyDocs files *)

MaxFuzzyDocs == 22
MaxPattern == 2

FuzzyTexts == { <<"x">>, <<"x"," ","X">>, <<"y">> }

\* n files whose texts repeat the pattern
FuzzyFiles(n, pattern) ==
    [i \in 1..n |->
        Pdf(<<"a",".","p","d","f">>, <<"T">>, pattern[((i - 1) % Len(pattern)) + 1])]

FuzzyDirs ==
    { Tree(FuzzyFiles(n, pattern), NewsRoot, <<>>, LowerNewsRoot, <<>>) :
        n \in (0..2) \cup ((MaxFuzzyDocs - 2)..MaxFuzzyDocs),
        pattern \in SeqsUpTo(FuzzyTexts, MaxPattern) \ {<<>>} }

FuzzyQueries == { <<"x">>, <<"Y"," ","x">> }
FuzzyRatios == {0, 50, 100}

InitFuzzy == InitOver(FuzzyDirs)

NextFuzzy ==
    \/ Build
    \/ FuzzySearch(FuzzyQueries, FuzzyRatios)
    \/ Respond

SpecFuzzy == InitFuzzy /\ [][NextFuzzy]_vars

\* the first 20 entries of the ranked search on the tokenized query
RankedTop ==
    LET ranked == general_search(tokenize(op.query), documents, inverted_index, idf)
    IN  SubSeq(ranked, 1, IF Len(ranked) < 20 THEN Len(ranked) ELSE 20)

\* C10: fuzzy_search returns at most 20 entries, one for each document among
\* the first 20 entries of general_search on the tokenized query and for no
\* other, each with the token-set ratio as its score, in descending order of
\* that ratio whatever the TF-IDF order.
C10_FuzzyReranksTop20 ==
    (phase = "serving" /\ op.name = "fuzzy_search") =>
        \A top \in {RankedTop} :
            /\ Len(result) <= 20
            /\ \A i, j \in DOMAIN result : i # j => result[i][1] # result[j][1]
            /\ {result[k][1] : k \in DOMAIN result} = {top[k][1] : k \in DOMAIN top}
            /\ \A k \in DOMAIN result :
                   result[k][2] =
                       op.ratio[<<Lower(op.query),
                                  Lower(documents[result[k][1]].title \o <<" ">>
                                        \o documents[result[k][1]].text)>>]
            /\ \A i, j \in DOMAIN result : i < j => result[i][2] >= result[j][2]

\* the ranked search returned more than 20 documents, 20 were re-ranked and
\* the first of them by ratio is not the first by TF-IDF
C10_Witness ==
    /\ phase = "serving"
    /\ op.name = "fuzzy_search"
    /\ Len(result) = 20
    /\ result[1][2] > result[20][2]
    /\ \E top \in {RankedTop} : result[1][1] # top[1][1]
    /\ Len(general_search(tokenize(op.query), documents, inverted_index, idf)) > 20

====
